---- MODULE Spec2Model ----
(***************************************************************************)
(* Model of the affordability engine of src/map_app.js                     *)
(* (class HousingAffordabilityMap): tax conversion, mortgage payment,      *)
(* per-postcode recompute and colour classification.                       *)
(*                                                                         *)
(* JavaScript numbers are modelled as decimal floating-point values        *)
(* m * 10^e with a mantissa of at most eight significant digits, rounded   *)
(* half-up after every operation, together with NaN, +Infinity, -Infinity, *)
(* null and undefined.  A double carries about sixteen digits; the model   *)
(* carries eight, so every operation rounds at least as coarsely as the    *)
(* program does.                                                           *)
(***************************************************************************)
EXTENDS Integers, Sequences, FiniteSets, TLC

VARIABLES
    inputs,        \* the numeric form controls: control id -> content
    pricePoint,    \* the #pricePoint select: "q1", "median" or "q3"
    housingType,   \* this.housingType
    depositType,   \* this.depositType
    mortgageType,  \* this.mortgageType
    housingData,   \* this.housingData: postcode -> record
    fillColor,     \* fill colour of each feature of this.geojsonLayer
    loaded,        \* _loadData has completed
    lastError,     \* outcome of the last handler: "none" or the exception thrown
    events,        \* number of user events handled so far
    passes,        \* number of times _updateAllAffordability has been entered
    tax,           \* a tax conversion being evaluated
    cls,           \* a colour classification being evaluated
    calc           \* a mortgage, inflation or ordering evaluation in progress

vars == <<inputs, pricePoint, housingType, depositType, mortgageType,
          housingData, fillColor, loaded, lastError, events, passes, tax, cls, calc>>

\* ------------------------------------------------------------------------
\* JavaScript number values
\* ------------------------------------------------------------------------
P10(d) ==
    LET Pow10Tab == <<1, 10, 100, 1000, 10000, 100000, 1000000, 10000000, 100000000, 1000000000>>
    IN  Pow10Tab[d + 1]
MantLimit == P10(8)
LimbBase == P10(4)

AbsI(i) == IF i < 0 THEN -i ELSE i
SgnI(i) == IF i > 0 THEN 1 ELSE IF i < 0 THEN -1 ELSE 0

NaN == [k |-> "nan", m |-> 0, e |-> 0]
Infinity == [k |-> "inf", m |-> 1, e |-> 0]
NegInfinity == [k |-> "inf", m |-> -1, e |-> 0]
Null == [k |-> "null", m |-> 0, e |-> 0]
Undefined == [k |-> "undef", m |-> 0, e |-> 0]
Zero == [k |-> "fin", m |-> 0, e |-> 0]

IsFin(a) == a.k = "fin"
IsNaN(a) == a.k = "nan" \/ a.k = "undef"
IsNullish(a) == a.k = "null" \/ a.k = "undef"

\* a >= 0 with d low digits dropped, rounded half-up
RoundMag(a, d) == IF d > 9 THEN 0 ELSE (a + P10(d) \div 2) \div P10(d)
NDigits(a) ==
    IF a < 10000
    THEN IF a < 100 THEN (IF a < 10 THEN 1 ELSE 2) ELSE (IF a < 1000 THEN 3 ELSE 4)
    ELSE IF a < 100000000
         THEN IF a < 1000000 THEN (IF a < 100000 THEN 5 ELSE 6)
              ELSE (IF a < 10000000 THEN 7 ELSE 8)
         ELSE IF a < 1000000000 THEN 9 ELSE 10

\* the canonical form of m * 10^e: no trailing zero in the mantissa
RECURSIVE Strip(_, _)
Strip(m, e) ==
    IF m = 0 THEN Zero
    ELSE IF m % 10 = 0 THEN Strip(m \div 10, e + 1)
    ELSE [k |-> "fin", m |-> m, e |-> e]

\* the number sign * a * 10^e rounded to eight significant digits
Norm(sign, a, e) ==
    LET \* sign * a * 10^e with the d low digits of a rounded away
        NormDrop(d) ==
            IF d <= 0 THEN Strip(sign * a, e) ELSE Strip(sign * RoundMag(a, d), e + d)
    IN  NormDrop(NDigits(a) - 8)

\* literals of at most eight digits
Num(i) == Strip(i, 0)
Dec(m, places) == Strip(m, -places)

NegFin(a) == [a EXCEPT !.m = -a.m]

AddFin(a, b) ==
    LET MinI(i, j) == IF i <= j THEN i ELSE j
        Mk(m, e) == Norm(SgnI(m), AbsI(m), e)
        \* hi.e >= lo.e; hi is shifted up by `up` digits, lo rounded to that scale
        AddShift(hi, lo, up) ==
            Mk(hi.m * P10(up) + SgnI(lo.m) * RoundMag(AbsI(lo.m), hi.e - lo.e - up), hi.e - up)
        AddAligned(hi, lo) == AddShift(hi, lo, MinI(hi.e - lo.e, 9 - NDigits(AbsI(hi.m))))
    IN  IF a.m = 0 THEN b
        ELSE IF b.m = 0 THEN a
        ELSE AddAligned(IF a.e >= b.e THEN a ELSE b, IF a.e >= b.e THEN b ELSE a)

MulFin(a, b) ==
    LET \* hi * 10^8 + lo is the exact product; kk digits of lo are kept
        MulJoin(s, e, hi, lo, kk) == Norm(s, hi * P10(kk) + RoundMag(lo, 8 - kk), e + 8 - kk)
        MulSplit(s, e, hi, lo) ==
            MulJoin(s, e, hi, lo, IF NDigits(hi) >= 8 THEN 0 ELSE 8 - NDigits(hi))
        MulSum(s, e, hh, X, lowsum) ==
            MulSplit(s, e, hh + X \div LimbBase + lowsum \div MantLimit, lowsum % MantLimit)
        MulCross(s, e, hh, X, ll) == MulSum(s, e, hh, X, (X % LimbBase) * LimbBase + ll)
        \* product of the magnitudes x and y by limbs of four digits
        MulLimbs(s, e, x, y) ==
            MulCross(s, e, (x \div LimbBase) * (y \div LimbBase),
                     (x \div LimbBase) * (y % LimbBase) + (y \div LimbBase) * (x % LimbBase),
                     (x % LimbBase) * (y % LimbBase))
        MulMag(s, e, x, y) ==
            IF x = 0 \/ y = 0 THEN Zero
            ELSE IF x <= 2147483647 \div y THEN Norm(s, x * y, e)
            ELSE MulLimbs(s, e, x, y)
    IN  MulMag(SgnI(a.m) * SgnI(b.m), a.e + b.e, AbsI(a.m), AbsI(b.m))

\* b.m # 0
DivFin(a, b) ==
    LET RECURSIVE LongDiv(_, _, _, _)
        LongDiv(q, r, y, sh) ==
            IF r = 0 \/ q >= MantLimit THEN <<q, sh>>
            ELSE LongDiv(q * 10 + (r * 10) \div y, (r * 10) % y, y, sh + 1)
        DivJoin(s, e, res) == Norm(s, res[1], e - res[2])
        DivMag(s, e, x, y) == DivJoin(s, e, LongDiv(x \div y, x % y, y, 0))
    IN  DivMag(SgnI(a.m) * SgnI(b.m), a.e - b.e, AbsI(a.m), AbsI(b.m))

\* sign of a - b for finite a, b
CmpFin(a, b) == SgnI(AddFin(a, NegFin(b)).m)

\* -1, 0, 1 for ordered values (finite or infinite); NaN is never ordered
Cmp(a, b) ==
    IF IsFin(a) /\ IsFin(b) THEN CmpFin(a, b)
    ELSE IF IsFin(a) THEN -b.m
    ELSE IF IsFin(b) THEN a.m
    ELSE SgnI(a.m - b.m)
Ordered(a, b) == a.k \in {"fin", "inf"} /\ b.k \in {"fin", "inf"}

\* The operators below take their operands through a bound variable, so that
\* an operand expression is evaluated once however often its value is used.
Lt(a, b) == \E x \in {a} : \E y \in {b} : Ordered(x, y) /\ Cmp(x, y) < 0
Le(a, b) == \E x \in {a} : \E y \in {b} : Ordered(x, y) /\ Cmp(x, y) <= 0
Gt(a, b) == \E x \in {a} : \E y \in {b} : Ordered(x, y) /\ Cmp(x, y) > 0
Ge(a, b) == \E x \in {a} : \E y \in {b} : Ordered(x, y) /\ Cmp(x, y) >= 0
\* the === of two numbers
StrictEq(a, b) ==
    \E x \in {a} : \E y \in {b} :
        x.k = y.k /\ ~IsNaN(x) /\ (Ordered(x, y) => Cmp(x, y) = 0)

NegV(a) == IF a.k \in {"fin", "inf"} THEN NegFin(a) ELSE NaN
AddV(a, b) ==
    IF ~Ordered(a, b) THEN NaN
    ELSE IF IsFin(a) /\ IsFin(b) THEN AddFin(a, b)
    ELSE IF IsFin(a) THEN b
    ELSE IF IsFin(b) THEN a
    ELSE IF a.m = b.m THEN a ELSE NaN
MulV(a, b) ==
    IF ~Ordered(a, b) THEN NaN
    ELSE IF IsFin(a) /\ IsFin(b) THEN MulFin(a, b)
    ELSE IF a.m = 0 \/ b.m = 0 THEN NaN
    ELSE IF SgnI(a.m) * SgnI(b.m) > 0 THEN Infinity ELSE NegInfinity
DivV(a, b) ==
    IF ~Ordered(a, b) THEN NaN
    ELSE IF IsFin(a) /\ IsFin(b)
         THEN IF b.m # 0 THEN DivFin(a, b)
              ELSE IF a.m = 0 THEN NaN
              ELSE IF a.m > 0 THEN Infinity ELSE NegInfinity
    ELSE IF IsFin(a) THEN Zero
    ELSE IF ~IsFin(b) THEN NaN
    ELSE IF a.m * (IF b.m < 0 THEN -1 ELSE 1) > 0 THEN Infinity ELSE NegInfinity

Add(a, b) == CHOOSE r \in {AddV(x, y) : x \in {a}, y \in {b}} : TRUE
Sub(a, b) == CHOOSE r \in {AddV(x, NegV(y)) : x \in {a}, y \in {b}} : TRUE
Mul(a, b) == CHOOSE r \in {MulV(x, y) : x \in {a}, y \in {b}} : TRUE
Div(a, b) == CHOOSE r \in {DivV(x, y) : x \in {a}, y \in {b}} : TRUE

MathMin(a, b) ==
    CHOOSE r \in {IF IsNaN(x) \/ IsNaN(y) THEN NaN ELSE IF Le(x, y) THEN x ELSE y
                    : x \in {a}, y \in {b}} : TRUE
MathMax(a, b) ==
    CHOOSE r \in {IF IsNaN(x) \/ IsNaN(y) THEN NaN ELSE IF Ge(x, y) THEN x ELSE y
                    : x \in {a}, y \in {b}} : TRUE
AbsN(a) == CHOOSE r \in {IF Lt(x, Zero) THEN NegV(x) ELSE x : x \in {a}} : TRUE

\* truthiness of a number, null or undefined
Truthy(a) == \E x \in {a} : x.k = "inf" \/ (x.k = "fin" /\ x.m # 0)
\* a || b
OrElse(a, b) == CHOOSE r \in {IF Truthy(x) THEN x ELSE b : x \in {a}} : TRUE
NumberIsFinite(a) == a.k = "fin"

\* ------------------------------------------------------------------------
\* Tax conversion
\* ------------------------------------------------------------------------
\* NetToGrossBrackets with two digits of one cumulative tax transposed
NetToGrossBrackets_Slip == <<
    [lower |-> Num(0),      upper |-> Num(18200),  r |-> Dec(0, 2),  Cprev |-> Num(0)],
    [lower |-> Num(18200),  upper |-> Num(45000),  r |-> Dec(16, 2), Cprev |-> Num(0)],
    [lower |-> Num(45000),  upper |-> Num(135000), r |-> Dec(30, 2), Cprev |-> Num(4288)],
    [lower |-> Num(135000), upper |-> Num(190000), r |-> Dec(37, 2), Cprev |-> Num(31828)],
    [lower |-> Num(190000), upper |-> Infinity,    r |-> Dec(45, 2), Cprev |-> Num(51638)] >>

NetToGrossBrackets == <<
    [lower |-> Num(0),      upper |-> Num(18200),  r |-> Dec(0, 2),  Cprev |-> Num(0)],
    [lower |-> Num(18200),  upper |-> Num(45000),  r |-> Dec(16, 2), Cprev |-> Num(0)],
    [lower |-> Num(45000),  upper |-> Num(135000), r |-> Dec(30, 2), Cprev |-> Num(4288)],
    [lower |-> Num(135000), upper |-> Num(190000), r |-> Dec(37, 2), Cprev |-> Num(31288)],
    [lower |-> Num(190000), upper |-> Infinity,    r |-> Dec(45, 2), Cprev |-> Num(51638)] >>

GrossToNetBrackets == <<
    [lower |-> Num(0),      upper |-> Num(18200),  r |-> Dec(0, 2)],
    [lower |-> Num(18200),  upper |-> Num(45000),  r |-> Dec(16, 2)],
    [lower |-> Num(45000),  upper |-> Num(135000), r |-> Dec(30, 2)],
    [lower |-> Num(135000), upper |-> Num(190000), r |-> Dec(37, 2)],
    [lower |-> Num(190000), upper |-> Infinity,    r |-> Dec(45, 2)] >>

Thrown == [k |-> "throw", m |-> 0, e |-> 0]

\* CandidateGross with the cumulative tax of the lower brackets left out
CandidateGross_NoCprev(netIncome, b) ==
    Div(Sub(netIncome, Mul(b.r, b.lower)), Sub(Num(1), b.r))

\* (netIncome + Cprev - r * lower) / denom for the bracket b
CandidateGross(netIncome, b) ==
    Div(Sub(Add(netIncome, b.Cprev), Mul(b.r, b.lower)), Sub(Num(1), b.r))

\* inRange; last holds for the final bracket
BracketInRange(b, candidateGross, last) ==
    /\ Ge(candidateGross, b.lower)
    /\ (IF last THEN Ge(candidateGross, b.lower) ELSE Lt(candidateGross, b.upper))

\* the loop over the brackets from index i, and the statement after it
RECURSIVE ScanBrackets(_, _)
RECURSIVE ScanBracket(_, _, _)
RECURSIVE ScanCandidate(_, _, _, _)
ScanBrackets(netIncome, i) ==
    IF i > Len(NetToGrossBrackets)
    THEN CandidateGross(netIncome, NetToGrossBrackets[Len(NetToGrossBrackets)])
    ELSE ScanBracket(netIncome, i, NetToGrossBrackets[i])
ScanBracket(netIncome, i, b) ==
    IF Le(Sub(Num(1), b.r), Zero) THEN ScanBrackets(netIncome, i + 1)
    ELSE ScanCandidate(netIncome, i, b, CandidateGross(netIncome, b))
ScanCandidate(netIncome, i, b, candidateGross) ==
    IF BracketInRange(b, candidateGross, i = Len(NetToGrossBrackets)) THEN candidateGross
    ELSE ScanBrackets(netIncome, i + 1)

\* ConvertNetToGross without the clamp of negative incomes
ConvertNetToGross_NoClamp(netIncome) ==
    IF ~NumberIsFinite(netIncome) THEN Thrown
    ELSE IF Le(netIncome, NetToGrossBrackets[1].upper) THEN netIncome
    ELSE ScanBrackets(netIncome, 2)

ConvertNetToGross(netIncome) ==
    IF ~NumberIsFinite(netIncome) THEN Thrown
    ELSE IF Lt(netIncome, Zero) THEN Zero
    ELSE IF Le(netIncome, NetToGrossBrackets[1].upper) THEN netIncome
    ELSE ScanBrackets(netIncome, 2)

\* TaxStep with the taxable amount of a bracket not capped at its upper bound
TaxStep_NoCap(taxSoFar, grossIncome, b) ==
    IF Gt(grossIncome, b.lower)
    THEN Add(taxSoFar, Mul(Sub(grossIncome, b.lower), b.r))
    ELSE taxSoFar

\* one iteration of the loop over the brackets
TaxStep(taxSoFar, grossIncome, b) ==
    IF Gt(grossIncome, b.lower)
    THEN Add(taxSoFar, Mul(Sub(MathMin(grossIncome, b.upper), b.lower), b.r))
    ELSE taxSoFar

\* tax after the first i brackets
RECURSIVE TaxUpTo(_, _)
\* TaxUpTo with the marginal rate charged on the whole income
TaxUpTo_WholeIncome(grossIncome, i) ==
    IF i = 0 \/ ~Gt(grossIncome, Zero) THEN Zero
    ELSE Mul(grossIncome,
             GrossToNetBrackets[CHOOSE j \in 1..i :
                 /\ Gt(grossIncome, GrossToNetBrackets[j].lower)
                 /\ (j = i \/ ~Gt(grossIncome, GrossToNetBrackets[j + 1].lower))].r)

TaxUpTo(grossIncome, i) ==
    IF i = 0 THEN Zero
    ELSE TaxStep(TaxUpTo(grossIncome, i - 1), grossIncome, GrossToNetBrackets[i])

CalculateNetIncome(grossIncome) ==
    IF ~NumberIsFinite(grossIncome) THEN Thrown
    ELSE IF Lt(grossIncome, Zero) THEN Zero
    ELSE Sub(grossIncome, TaxUpTo(grossIncome, Len(GrossToNetBrackets)))

\* ------------------------------------------------------------------------
\* Inflation adjustment and default values
\* ------------------------------------------------------------------------
MathRound(a) ==
    IF ~IsFin(a) \/ a.e >= 0 THEN a
    ELSE IF -a.e > 9 THEN Zero
    ELSE Num((2 * a.m + P10(-a.e)) \div (2 * P10(-a.e)))

INFLATION_RATES ==
    (2020 :> Dec(9, 1)) @@ (2021 :> Dec(29, 1)) @@ (2022 :> Dec(66, 1)) @@
    (2023 :> Dec(56, 1)) @@ (2024 :> Dec(316, 2)) @@ (2025 :> Dec(210, 2))

RateOf(inflationRates, year) ==
    IF year \in DOMAIN inflationRates THEN inflationRates[year] ELSE Undefined

RECURSIVE AdjustLoop(_, _, _, _)
AdjustLoop(adjustedValue, year, targetYear, inflationRates) ==
    IF year > targetYear THEN adjustedValue
    ELSE AdjustLoop(
            IF Truthy(RateOf(inflationRates, year))
            THEN Mul(adjustedValue, Add(Num(1), Div(RateOf(inflationRates, year), Num(100))))
            ELSE adjustedValue,
            year + 1, targetYear, inflationRates)

\* AdjustForInflation with the loop started at baseYear
AdjustForInflation_FromBaseYear(baseValue, baseYear, targetYear, inflationRates) ==
    MathRound(AdjustLoop(baseValue, baseYear, targetYear, inflationRates))

AdjustForInflation(baseValue, baseYear, targetYear, inflationRates) ==
    MathRound(AdjustLoop(baseValue, baseYear + 1, targetYear, inflationRates))

DEFAULT_VALUES == [
    householdIncome |-> [base |-> Num(61984), baseYear |-> 2022, targetYear |-> 2025],
    costOfLiving |-> [
        utilities |-> [base |-> Num(46), baseYear |-> 2019, targetYear |-> 2024],
        food      |-> [base |-> Num(92), baseYear |-> 2019, targetYear |-> 2024],
        transport |-> [base |-> Num(69), baseYear |-> 2019, targetYear |-> 2024]],
    mortgage |-> [interestRate |-> Dec(65, 1), loanTerm |-> Num(30),
                  depositPercent |-> Num(20), depositAmount |-> Num(100000)],
    ownerCosts |-> [strata |-> Num(92), council |-> Num(46), water |-> Num(23),
                    maintenance |-> Num(69)] ]

AdjustedDefault(d) == AdjustForInflation(d.base, d.baseYear, d.targetYear, INFLATION_RATES)

\* ------------------------------------------------------------------------
\* Mortgage payment
\* ------------------------------------------------------------------------
\* the integer a finite value with no fractional digits stands for
ToInt(a) == a.m * P10(a.e)

RECURSIVE PowInt(_, _)
PowInt(base, n) ==
    IF n = 0 THEN Num(1)
    ELSE IF n % 2 = 0 THEN CHOOSE r \in {MulV(h, h) : h \in {PowInt(base, n \div 2)}} : TRUE
    ELSE Mul(base, PowInt(base, n - 1))

\* Math.pow for a whole, non-negative exponent
MathPow(base, exponent) == PowInt(base, ToInt(exponent))

\* the two payments once the monthly interest and the growth factor are known
MortgagePayments(monthlyInterest, factor, type) ==
    IF type = "IO"
    THEN [payment |-> monthlyInterest, interest |-> monthlyInterest]
    ELSE [payment |-> Div(Mul(monthlyInterest, factor), Sub(factor, Num(1))),
          interest |-> monthlyInterest]

\* MortgageAtRate with the growth factor taken of the rate instead of 1 + rate
MortgageAtRate_RatePower(loanAmount, monthlyRate, numPayments, type) ==
    MortgagePayments(Mul(loanAmount, monthlyRate), MathPow(monthlyRate, numPayments), type)

MortgageAtRate(loanAmount, monthlyRate, numPayments, type) ==
    MortgagePayments(Mul(loanAmount, monthlyRate),
                     MathPow(Add(Num(1), monthlyRate), numPayments), type)

\* CalculateMortgage without the branch for a rate of zero
CalculateMortgage_NoZeroRate(loanAmount, annualRate, termYears, type) ==
    IF Le(loanAmount, Zero) THEN [payment |-> Zero, interest |-> Zero]
    ELSE MortgageAtRate(loanAmount, Div(Div(annualRate, Num(100)), Num(12)),
                        Mul(termYears, Num(12)), type)

CalculateMortgage(loanAmount, annualRate, termYears, type) ==
    IF Le(loanAmount, Zero) THEN [payment |-> Zero, interest |-> Zero]
    ELSE IF StrictEq(annualRate, Zero)
    THEN [payment |-> Div(loanAmount, Mul(termYears, Num(12))), interest |-> Zero]
    ELSE MortgageAtRate(loanAmount, Div(Div(annualRate, Num(100)), Num(12)),
                        Mul(termYears, Num(12)), type)

\* ------------------------------------------------------------------------
\* Form controls
\* ------------------------------------------------------------------------
\* content of a control that holds no number (empty or non-numeric text)
Blank == [k |-> "blank", m |-> 0, e |-> 0]
\* parseFloat of a control's content
ParseFloat(v) == IF v.k = "blank" THEN NaN ELSE v

MortgageControls == {"interestRate", "loanTerm", "depositPercent", "depositAmount"}
LivingCostControls == {"utilities", "food", "transport", "other",
                       "strata", "council", "water", "maintenance"}
ControlIds == {"annualIncome"} \cup MortgageControls \cup LivingCostControls

\* _setDefaultValues; #other is not among the controls it sets
DefaultInputs ==
    [id \in ControlIds |->
        CASE id = "annualIncome" -> MathRound(AdjustedDefault(DEFAULT_VALUES.householdIncome))
          [] id = "utilities" -> AdjustedDefault(DEFAULT_VALUES.costOfLiving.utilities)
          [] id = "food" -> AdjustedDefault(DEFAULT_VALUES.costOfLiving.food)
          [] id = "transport" -> AdjustedDefault(DEFAULT_VALUES.costOfLiving.transport)
          [] id = "other" -> Blank
          [] id = "interestRate" -> DEFAULT_VALUES.mortgage.interestRate
          [] id = "loanTerm" -> DEFAULT_VALUES.mortgage.loanTerm
          [] id = "depositPercent" -> DEFAULT_VALUES.mortgage.depositPercent
          [] id = "depositAmount" -> DEFAULT_VALUES.mortgage.depositAmount
          [] id = "strata" -> DEFAULT_VALUES.ownerCosts.strata
          [] id = "council" -> DEFAULT_VALUES.ownerCosts.council
          [] id = "water" -> DEFAULT_VALUES.ownerCosts.water
          [] id = "maintenance" -> DEFAULT_VALUES.ownerCosts.maintenance]

\* ------------------------------------------------------------------------
\* Affordability engine
\* ------------------------------------------------------------------------
True == [k |-> "bool", m |-> 1, e |-> 0]
False == [k |-> "bool", m |-> 0, e |-> 0]
Bool(b) == IF b THEN True ELSE False

\* parseFloat(control value) || fallback
ControlOr(inp, id, fallback) == OrElse(ParseFloat(inp[id]), fallback)

\* the object _getUserSettings returns; threw records the TypeError of the
\* conversion, which leaves the handler before anything is written
UserSettings(householdNetIncome, householdGrossIncome, weeklyLivingCosts, weeklyOwnerCosts) ==
    [threw |-> householdGrossIncome = Thrown,
     grossIncome |-> householdGrossIncome,
     netIncome |-> householdNetIncome,
     weeklyNetIncome |-> Div(householdNetIncome, Num(52)),
     weeklyGrossIncome |-> Div(householdGrossIncome, Num(52)),
     weeklyLivingCosts |-> weeklyLivingCosts,
     weeklyOwnerCosts |-> weeklyOwnerCosts]

WeeklyLivingCosts(inp) ==
    Add(Add(Add(ControlOr(inp, "utilities", Zero), ControlOr(inp, "food", Zero)),
            ControlOr(inp, "transport", Zero)), ControlOr(inp, "other", Zero))
WeeklyOwnerCosts(inp) ==
    Add(Add(Add(ControlOr(inp, "strata", Zero), ControlOr(inp, "council", Zero)),
            ControlOr(inp, "water", Zero)), ControlOr(inp, "maintenance", Zero))

\* GetUserSettings with the gross income converted from the weekly net income
GetUserSettings_WeeklyFirst(inp) ==
    [UserSettings(ControlOr(inp, "annualIncome", Zero),
                  ConvertNetToGross(ControlOr(inp, "annualIncome", Zero)),
                  WeeklyLivingCosts(inp), WeeklyOwnerCosts(inp))
        EXCEPT !.weeklyGrossIncome =
                   ConvertNetToGross(Div(ControlOr(inp, "annualIncome", Zero), Num(52)))]

GetUserSettings(inp) ==
    UserSettings(ControlOr(inp, "annualIncome", Zero),
                 ConvertNetToGross(ControlOr(inp, "annualIncome", Zero)),
                 WeeklyLivingCosts(inp), WeeklyOwnerCosts(inp))

\* the mortgage controls as both the pass and the projections read them
MortgageInputs(inp) ==
    [depositPercent |-> ControlOr(inp, "depositPercent", Num(20)),
     depositAmount  |-> ControlOr(inp, "depositAmount", Zero),
     interestRate   |-> ControlOr(inp, "interestRate", Dec(65, 1)),
     loanTermYears  |-> ControlOr(inp, "loanTerm", Num(30))]

ActualDeposit(price, mort, depType) ==
    IF depType = "percent"
    THEN Mul(price, Div(mort.depositPercent, Num(100)))
    ELSE mort.depositAmount

\* the mortgage on a price: loan amount, then _calculateMortgage
MortgageFor(price, mort, depType, mortType) ==
    CalculateMortgage(MathMax(Zero, Sub(price, ActualDeposit(price, mort, depType))),
                      mort.interestRate, mort.loanTermYears, mortType)

\* a monthly amount * 12 / 52
Weekly(monthly) == Div(Mul(monthly, Num(12)), Num(52))

\* (thousands || 0) * 1000
SalesPrice(sales000s) == Mul(OrElse(sales000s, Zero), Num(1000))

\* QuartilePaymentFor without the weekly owner costs
QuartilePaymentFor_NoOwnerCosts(qSales, userSettings, inp, depType, mortType) ==
    IF Gt(qSales, Zero)
    THEN Weekly(MortgageFor(qSales, MortgageInputs(inp), depType, mortType).payment)
    ELSE Null

QuartilePaymentFor(qSales, userSettings, inp, depType, mortType) ==
    IF Gt(qSales, Zero)
    THEN Add(Weekly(MortgageFor(qSales, MortgageInputs(inp), depType, mortType).payment),
             userSettings.weeklyOwnerCosts)
    ELSE Null

\* the weekly payment projection of one quartile sales price
QuartileWeeklyPayment(sales000s, userSettings, inp, depType, mortType) ==
    QuartilePaymentFor(SalesPrice(sales000s), userSettings, inp, depType, mortType)

\* CalculateQuartilePayments with its first two assignments reversed
CalculateQuartilePayments_Reversed(data, userSettings, inp, depType, mortType) ==
    [data EXCEPT
        !.yearly_first_quartile_weekly_rent = data.yearly_first_quartile_weekly_rent_payment,
        !.yearly_third_quartile_weekly_rent = data.yearly_third_quartile_weekly_rent_payment,
        !.yearly_first_quartile_weekly_payment =
            QuartileWeeklyPayment(data.yearly_first_quartile_sales_000s,
                                  userSettings, inp, depType, mortType),
        !.yearly_third_quartile_weekly_payment =
            QuartileWeeklyPayment(data.yearly_third_quartile_sales_000s,
                                  userSettings, inp, depType, mortType)]

CalculateQuartilePayments(data, userSettings, inp, depType, mortType) ==
    [data EXCEPT
        !.yearly_first_quartile_weekly_rent_payment = data.yearly_first_quartile_weekly_rent,
        !.yearly_third_quartile_weekly_rent_payment = data.yearly_third_quartile_weekly_rent,
        !.yearly_first_quartile_weekly_payment =
            QuartileWeeklyPayment(data.yearly_first_quartile_sales_000s,
                                  userSettings, inp, depType, mortType),
        !.yearly_third_quartile_weekly_payment =
            QuartileWeeklyPayment(data.yearly_third_quartile_sales_000s,
                                  userSettings, inp, depType, mortType)]

\* sales price and rent of the active price point
SelectPricePoint(data, pp) ==
    [salesPrice |-> SalesPrice(IF pp = "q1" THEN data.yearly_first_quartile_sales_000s
                               ELSE IF pp = "q3" THEN data.yearly_third_quartile_sales_000s
                               ELSE data.yearly_median_sales_price_000s),
     rent |-> IF pp = "q1" THEN data.yearly_first_quartile_weekly_rent
              ELSE IF pp = "q3" THEN data.yearly_third_quartile_weekly_rent
              ELSE data.yearly_median_weekly_rent]

AffordabilityPercentage(weeklyHousingCost, weeklyGrossIncome) ==
    Mul(Div(weeklyHousingCost, weeklyGrossIncome), Num(100))

\* IsAffordable with the threshold written as a fraction
IsAffordable_Fraction(affordabilityPercentage) == Bool(Le(affordabilityPercentage, Dec(30, 2)))

IsAffordable(affordabilityPercentage) == Bool(Le(affordabilityPercentage, Num(30)))

\* WeeklyMoneyLeftover without the null for an unknown housing cost
WeeklyMoneyLeftover_NoNull(weeklyHousingCost, userSettings) ==
    Sub(Sub(userSettings.weeklyNetIncome, userSettings.weeklyLivingCosts), weeklyHousingCost)

WeeklyMoneyLeftover(weeklyHousingCost, userSettings) ==
    IF Gt(weeklyHousingCost, Zero)
    THEN Sub(Sub(userSettings.weeklyNetIncome, userSettings.weeklyLivingCosts),
             weeklyHousingCost)
    ELSE Null

\* the mortgage of the buy branch as weekly payment and weekly interest
WeeklyMortgage(mortgage) ==
    [weeklyMortgagePayment |-> Weekly(mortgage.payment),
     weeklyInterest |-> Weekly(mortgage.interest)]
BuyMortgage(salesPrice, inp, depType, mortType) ==
    WeeklyMortgage(MortgageFor(salesPrice, MortgageInputs(inp), depType, mortType))

\* what the branches of one iteration leave in the locals
BranchResult(branch, weeklyHousingCost, weeklyGrossIncome, m) ==
    [branch |-> branch,
     weeklyHousingCost |-> weeklyHousingCost,
     affordabilityPercentage |->
         IF branch = "none" THEN Zero
         ELSE AffordabilityPercentage(weeklyHousingCost, weeklyGrossIncome),
     weeklyMortgagePayment |-> m.weeklyMortgagePayment,
     weeklyInterest |-> m.weeklyInterest]

NoMortgage == [weeklyMortgagePayment |-> Undefined, weeklyInterest |-> Undefined]

BuyResult(m, userSettings) ==
    BranchResult("buy", Add(m.weeklyMortgagePayment, userSettings.weeklyOwnerCosts),
                 userSettings.weeklyGrossIncome, m)

BranchOf(sel, userSettings, inp, hType, depType, mortType) ==
    IF hType = "rent" /\ Truthy(sel.rent) /\ Gt(sel.rent, Zero)
    THEN BranchResult("rent", sel.rent, userSettings.weeklyGrossIncome, NoMortgage)
    ELSE IF hType = "buy" /\ Truthy(sel.salesPrice) /\ Gt(sel.salesPrice, Zero)
    THEN BuyResult(BuyMortgage(sel.salesPrice, inp, depType, mortType), userSettings)
    ELSE BranchResult("none", Zero, userSettings.weeklyGrossIncome, NoMortgage)

\* what one iteration of the loop computes before it writes the record
HousingCost(data, userSettings, inp, pp, hType, depType, mortType) ==
    BranchOf(SelectPricePoint(data, pp), userSettings, inp, hType, depType, mortType)

\* the assignments to the record in and after the branches
WriteResult(data, c, userSettings) ==
    [(IF c.branch = "buy"
      THEN [data EXCEPT !.calculated_weekly_payment = c.weeklyMortgagePayment,
                        !.calculated_weekly_interest = c.weeklyInterest]
      ELSE data)
        EXCEPT !.weekly_housing_cost = c.weeklyHousingCost,
               !.affordability_percentage = c.affordabilityPercentage,
               !.is_affordable = IsAffordable(c.affordabilityPercentage),
               !.weekly_money_leftover =
                   WeeklyMoneyLeftover(c.weeklyHousingCost, userSettings)]

\* the body of the loop of _updateAllAffordability for one record
UpdateRecord(data, userSettings, inp, pp, hType, depType, mortType) ==
    CalculateQuartilePayments(
        WriteResult(data, HousingCost(data, userSettings, inp, pp, hType, depType, mortType),
                    userSettings),
        userSettings, inp, depType, mortType)

\* ------------------------------------------------------------------------
\* Colour classification
\* ------------------------------------------------------------------------
\* GetColor with the percentage buckets tested before the leftover
GetColor_PercentageFirst(percentage, weeklyMoneyLeftover) ==
    IF percentage.k = "null" \/ IsNaN(percentage) \/ StrictEq(percentage, Zero) THEN "#ccc"
    ELSE IF Le(percentage, Num(20)) THEN "#16a34a"
    ELSE IF Le(percentage, Num(30)) THEN "#22c55e"
    ELSE IF ~IsNullish(weeklyMoneyLeftover) /\ Lt(weeklyMoneyLeftover, Zero) THEN "#000000"
    ELSE IF Le(percentage, Num(40)) THEN "#fbbf24"
    ELSE IF Le(percentage, Num(50)) THEN "#f97316"
    ELSE "#ef4444"

GetColor(percentage, weeklyMoneyLeftover) ==
    IF ~IsNullish(weeklyMoneyLeftover) /\ Lt(weeklyMoneyLeftover, Zero) THEN "#000000"
    ELSE IF percentage.k = "null" \/ IsNaN(percentage) \/ StrictEq(percentage, Zero) THEN "#ccc"
    ELSE IF Le(percentage, Num(20)) THEN "#16a34a"
    ELSE IF Le(percentage, Num(30)) THEN "#22c55e"
    ELSE IF Le(percentage, Num(40)) THEN "#fbbf24"
    ELSE IF Le(percentage, Num(50)) THEN "#f97316"
    ELSE "#ef4444"

StyleFeature(hd, postcode) ==
    LET hasData == postcode \in DOMAIN hd
        percentage == IF hasData THEN hd[postcode].affordability_percentage ELSE Null
        leftover == IF hasData THEN hd[postcode].weekly_money_leftover ELSE Null
    IN  GetColor(percentage, leftover)

\* ------------------------------------------------------------------------
\* Bounds and input domains
\* ------------------------------------------------------------------------
NumPostcodes == 1
MaxEvents == 2
MaxGrid == 25

Postcodes == 1..NumPostcodes
\* the features of the GeoJSON file: one per postcode with data, and one without
Features == Postcodes \cup {NumPostcodes + 1}

MkRecord(medRent, q1Rent, q3Rent, medSales, q1Sales, q3Sales) ==
    [yearly_median_weekly_rent |-> medRent,
     yearly_first_quartile_weekly_rent |-> q1Rent,
     yearly_third_quartile_weekly_rent |-> q3Rent,
     yearly_median_sales_price_000s |-> medSales,
     yearly_first_quartile_sales_000s |-> q1Sales,
     yearly_third_quartile_sales_000s |-> q3Sales,
     weekly_housing_cost |-> Undefined,
     affordability_percentage |-> Undefined,
     is_affordable |-> Undefined,
     weekly_money_leftover |-> Undefined,
     calculated_weekly_payment |-> Undefined,
     calculated_weekly_interest |-> Undefined,
     yearly_first_quartile_weekly_rent_payment |-> Undefined,
     yearly_third_quartile_weekly_rent_payment |-> Undefined,
     yearly_first_quartile_weekly_payment |-> Undefined,
     yearly_third_quartile_weekly_payment |-> Undefined]

\* rows of aggregated_yearly_data.csv as parsed: numbers, or null where a cell is empty
RawRecords == {
    MkRecord(Num(450), Num(400), Num(550), Num(800), Num(600), Num(1000)),
    MkRecord(Num(450), Num(400), Num(550), Null, Null, Null),
    MkRecord(Null, Null, Null, Num(800), Null, Num(1000)),
    MkRecord(Zero, Null, Num(300), Zero, Num(90), Null) }

Datasets == [Postcodes -> RawRecords]

\* values an event can put into a control, besides the default
EnteredValues(id) ==
    CASE id = "annualIncome" -> {Zero, Blank, Num(40712), Infinity}
      [] id \in {"utilities", "strata", "water", "maintenance"} -> {Zero}
      [] id \in {"food", "council"} -> {Blank}
      [] id = "transport" -> {Num(10)}
      [] id = "other" -> {Num(20)}
      [] id = "interestRate" -> {Zero, Blank, Num(5)}
      [] id = "loanTerm" -> {Zero, Num(25)}
      [] id = "depositPercent" -> {Zero, Num(10)}
      [] id = "depositAmount" -> {Blank, Num(1000000)}
ControlValues(id) == {DefaultInputs[id]} \cup EnteredValues(id)

PricePoints == {"q1", "median", "q3"}
HousingTypes == {"rent", "buy"}
DepositTypes == {"percent", "amount"}
MortgageTypes == {"IO", "PI"}

\* ------------------------------------------------------------------------
\* Recompute pass and rendering
\* ------------------------------------------------------------------------
\* UpdateLoop with the cost of each record reset before the settings are read
UpdateLoop_ResetFirst(hd, userSettings, inp, pp, hType, depType, mortType) ==
    IF userSettings.threw
    THEN [threw |-> TRUE,
          hd |-> [p \in DOMAIN hd |->
                     [hd[p] EXCEPT !.weekly_housing_cost = Zero,
                                   !.affordability_percentage = Zero]]]
    ELSE [threw |-> FALSE,
          hd |-> [p \in DOMAIN hd |->
                     UpdateRecord(hd[p], userSettings, inp, pp, hType, depType, mortType)]]

\* the loop over this.housingData; a TypeError thrown by _getUserSettings
\* leaves the collection as it was
UpdateLoop(hd, userSettings, inp, pp, hType, depType, mortType) ==
    IF userSettings.threw
    THEN [threw |-> TRUE, hd |-> hd]
    ELSE [threw |-> FALSE,
          hd |-> [p \in DOMAIN hd |->
                     UpdateRecord(hd[p], userSettings, inp, pp, hType, depType, mortType)]]

UpdateAllAffordability(hd, inp, pp, hType, depType, mortType) ==
    UpdateLoop(hd, GetUserSettings(inp), inp, pp, hType, depType, mortType)

\* fill colours of the layer _renderMap builds; geojsonData is null until the load
RenderMap(hd, geoLoaded) ==
    [f \in (IF geoLoaded THEN Features ELSE {}) |-> StyleFeature(hd, f)]

UpdateMapAndTable(hd, geoLoaded, inp, pp, hType, depType, mortType) ==
    \E pass \in {UpdateAllAffordability(hd, inp, pp, hType, depType, mortType)} :
        /\ housingData' = pass.hd
        /\ passes' = passes + 1
        /\ lastError' = IF pass.threw THEN "TypeError" ELSE "none"
        /\ fillColor' = IF pass.threw THEN fillColor ELSE RenderMap(pass.hd, geoLoaded)

\* ------------------------------------------------------------------------
\* Pure-function evaluations
\* ------------------------------------------------------------------------
TaxIdle == [dir |-> "none", arg |-> Zero, mid |-> Undefined, res |-> Undefined, pc |-> "idle"]
ClsIdle == [percentage |-> Null, leftover |-> Null, color |-> "", pc |-> "idle"]
CalcIdle == [fn |-> "none", pc |-> "idle"]

TaxPoints == {0, 18200, 45000, 135000, 190000, 40712, 103712, 138362}
TaxArgs ==
    {Num(b + d) : b \in TaxPoints, d \in {-1, 0, 1}}
    \cup {Dec(100 * b + d, 2) : b \in TaxPoints, d \in {-1, 1}}
    \cup {Num(10000 * i + 4321) : i \in 0..MaxGrid}
    \cup {Num(-5000), Dec(6894148, 2)}

ClsPercentages ==
    {Null, Undefined, NaN, Infinity, Zero, Num(-5), Num(10), Num(20), Dec(2001, 2), Num(25),
     Num(30), Dec(305, 1), Num(40), Dec(401, 1), Num(50), Dec(5001, 2), Num(75)}
ClsLeftovers == {Null, Undefined, NaN, Num(-10), Dec(-1, 2), Zero, Num(5)}


\* ------------------------------------------------------------------------
\* State machine of the application
\* ------------------------------------------------------------------------
\* the state when the constructor returns: _initMap, _bindEventListeners
\* (defaults set, then _updateNetIncome at line 164 runs the first pass over the
\* still empty collection), load pending
AppInit ==
    /\ inputs = DefaultInputs
    /\ pricePoint = "median"
    /\ housingType = "rent"
    /\ depositType = "percent"
    /\ mortgageType = "PI"
    /\ housingData = << >>
    /\ fillColor = << >>
    /\ loaded = FALSE
    /\ lastError = "none"
    /\ events = 0
    /\ passes = 1

\* _loadData resolves, then updateMapAndTable
LoadData ==
    /\ ~loaded
    /\ \E ds \in Datasets :
          UpdateMapAndTable(ds, TRUE, inputs, pricePoint, housingType, depositType, mortgageType)
    /\ loaded' = TRUE
    /\ UNCHANGED <<inputs, pricePoint, housingType, depositType, mortgageType, events>>

\* 'input' on #annualIncome: _updateNetIncome
InputAnnualIncome ==
    /\ events < MaxEvents
    /\ \E v \in ControlValues("annualIncome") \ {inputs["annualIncome"]} :
          LET inp == [inputs EXCEPT !["annualIncome"] = v]
              householdNetIncome == OrElse(ParseFloat(v), Zero)
              householdGrossIncome == ConvertNetToGross(householdNetIncome)
          IN  /\ inputs' = inp
              /\ IF householdGrossIncome = Thrown
                 THEN /\ lastError' = "TypeError"
                      /\ UNCHANGED <<housingData, fillColor, passes>>
                 ELSE UpdateMapAndTable(housingData, loaded, inp, pricePoint,
                                        housingType, depositType, mortgageType)
    /\ events' = events + 1
    /\ UNCHANGED <<pricePoint, housingType, depositType, mortgageType, loaded>>

\* 'input' on one of the mortgage controls
InputMortgageControl ==
    /\ events < MaxEvents
    /\ \E id \in MortgageControls : \E v \in ControlValues(id) \ {inputs[id]} :
          LET inp == [inputs EXCEPT ![id] = v]
          IN  /\ inputs' = inp
              /\ UpdateMapAndTable(housingData, loaded, inp, pricePoint,
                                   housingType, depositType, mortgageType)
    /\ events' = events + 1
    /\ UNCHANGED <<pricePoint, housingType, depositType, mortgageType, loaded>>

\* 'input' on one of the living-cost or owner-cost controls
InputLivingCost ==
    /\ events < MaxEvents
    /\ \E id \in LivingCostControls : \E v \in ControlValues(id) \ {inputs[id]} :
          LET inp == [inputs EXCEPT ![id] = v]
          IN  /\ inputs' = inp
              /\ UpdateMapAndTable(housingData, loaded, inp, pricePoint,
                                   housingType, depositType, mortgageType)
    /\ events' = events + 1
    /\ UNCHANGED <<pricePoint, housingType, depositType, mortgageType, loaded>>

\* 'change' on #pricePoint
ChangePricePoint ==
    /\ events < MaxEvents
    /\ \E pp \in PricePoints \ {pricePoint} :
          /\ pricePoint' = pp
          /\ UpdateMapAndTable(housingData, loaded, inputs, pp,
                               housingType, depositType, mortgageType)
    /\ events' = events + 1
    /\ UNCHANGED <<inputs, housingType, depositType, mortgageType, loaded>>

HandleHousingTypeChange ==
    /\ events < MaxEvents
    /\ \E type \in HousingTypes \ {housingType} :
          /\ housingType' = type
          /\ UpdateMapAndTable(housingData, loaded, inputs, pricePoint,
                               type, depositType, mortgageType)
    /\ events' = events + 1
    /\ UNCHANGED <<inputs, pricePoint, depositType, mortgageType, loaded>>

HandleMortgageTypeChange ==
    /\ events < MaxEvents
    /\ \E type \in MortgageTypes \ {mortgageType} :
          /\ mortgageType' = type
          /\ UpdateMapAndTable(housingData, loaded, inputs, pricePoint,
                               housingType, depositType, type)
    /\ events' = events + 1
    /\ UNCHANGED <<inputs, pricePoint, housingType, depositType, loaded>>

HandleDepositTypeChange ==
    /\ events < MaxEvents
    /\ \E type \in DepositTypes \ {depositType} :
          /\ depositType' = type
          /\ UpdateMapAndTable(housingData, loaded, inputs, pricePoint,
                               housingType, type, mortgageType)
    /\ events' = events + 1
    /\ UNCHANGED <<inputs, pricePoint, housingType, mortgageType, loaded>>

Init == AppInit /\ tax = TaxIdle /\ cls = ClsIdle /\ calc = CalcIdle

Next ==
    /\ \/ LoadData
       \/ InputAnnualIncome
       \/ InputMortgageControl
       \/ InputLivingCost
       \/ ChangePricePoint
       \/ HandleHousingTypeChange
       \/ HandleMortgageTypeChange
       \/ HandleDepositTypeChange
    /\ UNCHANGED <<tax, cls, calc>>

Spec == Init /\ [][Next]_vars

\* ------------------------------------------------------------------------
\* State machine of a tax conversion round trip
\* ------------------------------------------------------------------------
TaxInit ==
    /\ AppInit
    /\ cls = ClsIdle
    /\ calc = CalcIdle
    /\ \E dir \in {"g2n2g", "n2g2n"} : \E arg \in TaxArgs :
          tax = [dir |-> dir, arg |-> arg, mid |-> Undefined, res |-> Undefined, pc |-> "start"]

TaxInput == IF tax.pc = "start" THEN tax.arg ELSE tax.mid
TaxStore(v) ==
    IF tax.pc = "start"
    THEN tax' = [tax EXCEPT !.mid = v, !.pc = "mid"]
    ELSE tax' = [tax EXCEPT !.res = v, !.pc = "done"]

\* apply _calculateNetIncome: first in a gross round trip, second in a net one
ApplyGrossToNet ==
    /\ \/ tax.dir = "g2n2g" /\ tax.pc = "start"
       \/ tax.dir = "n2g2n" /\ tax.pc = "mid"
    /\ TaxStore(CalculateNetIncome(TaxInput))
    /\ UNCHANGED <<cls, calc, inputs, pricePoint, housingType, depositType, mortgageType,
                   housingData, fillColor, loaded, lastError, events, passes>>

\* apply _convertNetToGross: first in a net round trip, second in a gross one
ApplyNetToGross ==
    /\ \/ tax.dir = "n2g2n" /\ tax.pc = "start"
       \/ tax.dir = "g2n2g" /\ tax.pc = "mid"
    /\ TaxStore(ConvertNetToGross(TaxInput))
    /\ UNCHANGED <<cls, calc, inputs, pricePoint, housingType, depositType, mortgageType,
                   housingData, fillColor, loaded, lastError, events, passes>>

TaxNext == ApplyGrossToNet \/ ApplyNetToGross

SpecTax == TaxInit /\ [][TaxNext]_vars

\* ------------------------------------------------------------------------
\* State machine of one colour classification
\* ------------------------------------------------------------------------
ClsInit ==
    /\ AppInit
    /\ tax = TaxIdle
    /\ calc = CalcIdle
    /\ \E pct \in ClsPercentages : \E left \in ClsLeftovers :
          cls = [percentage |-> pct, leftover |-> left, color |-> "", pc |-> "start"]

Classify ==
    /\ cls.pc = "start"
    /\ cls' = [cls EXCEPT !.color = GetColor(cls.percentage, cls.leftover), !.pc = "done"]
    /\ UNCHANGED <<tax, calc, inputs, pricePoint, housingType, depositType, mortgageType,
                   housingData, fillColor, loaded, lastError, events, passes>>

ClsNext == Classify

SpecClassify == ClsInit /\ [][ClsNext]_vars

\* ------------------------------------------------------------------------
\* State machine of one mortgage calculation
\* ------------------------------------------------------------------------
MortgageInit ==
    /\ AppInit
    /\ tax = TaxIdle
    /\ cls = ClsIdle
    \* non-positive and positive principals, a zero, a tiny, the default and two
    \* very large rates, whole terms in years
    /\ \E loanAmount \in {Num(-100000), Dec(-1, 2), Zero, Num(1), Num(100000), Num(640000)} :
       \E annualRate \in {NaN, Zero, Dec(1, 2), Num(2), Dec(65, 1), Num(20), Num(40), Num(200)} :
       \E termYears \in {Zero, Num(1), Num(25), Num(30)} : \E type \in MortgageTypes :
          calc = [fn |-> "mortgage", loanAmount |-> loanAmount, annualRate |-> annualRate,
                  termYears |-> termYears, type |-> type, res |-> Undefined, pc |-> "start"]

ApplyCalculateMortgage ==
    /\ calc.fn = "mortgage" /\ calc.pc = "start"
    /\ calc' = [calc EXCEPT
                   !.res = CalculateMortgage(calc.loanAmount, calc.annualRate,
                                             calc.termYears, calc.type),
                   !.pc = "done"]
    /\ UNCHANGED <<tax, cls, inputs, pricePoint, housingType, depositType, mortgageType,
                   housingData, fillColor, loaded, lastError, events, passes>>

MortgageNext == ApplyCalculateMortgage

SpecMortgage == MortgageInit /\ [][MortgageNext]_vars

\* ------------------------------------------------------------------------
\* Harness: one converter applied to two ordered arguments
\* ------------------------------------------------------------------------
OrderedPairs == {pair \in TaxArgs \X TaxArgs : Lt(pair[1], pair[2])}

OrderInit ==
    /\ AppInit
    /\ tax = TaxIdle
    /\ cls = ClsIdle
    /\ \E fn \in {"grossToNet", "netToGross"} : \E pair \in OrderedPairs :
          calc = [fn |-> fn, lower |-> pair[1], upper |-> pair[2],
                  atLower |-> Undefined, atUpper |-> Undefined, pc |-> "start"]

OrderInput == IF calc.pc = "start" THEN calc.lower ELSE calc.upper
OrderStore(v) ==
    IF calc.pc = "start"
    THEN calc' = [calc EXCEPT !.atLower = v, !.pc = "mid"]
    ELSE calc' = [calc EXCEPT !.atUpper = v, !.pc = "done"]

\* apply _calculateNetIncome to the smaller argument, then to the larger
OrderGrossToNet ==
    /\ calc.fn = "grossToNet" /\ calc.pc \in {"start", "mid"}
    /\ OrderStore(CalculateNetIncome(OrderInput))
    /\ UNCHANGED <<tax, cls, inputs, pricePoint, housingType, depositType, mortgageType,
                   housingData, fillColor, loaded, lastError, events, passes>>

\* apply _convertNetToGross to the smaller argument, then to the larger
OrderNetToGross ==
    /\ calc.fn = "netToGross" /\ calc.pc \in {"start", "mid"}
    /\ OrderStore(ConvertNetToGross(OrderInput))
    /\ UNCHANGED <<tax, cls, inputs, pricePoint, housingType, depositType, mortgageType,
                   housingData, fillColor, loaded, lastError, events, passes>>

OrderNext == OrderGrossToNet \/ OrderNetToGross

SpecOrder == OrderInit /\ [][OrderNext]_vars

\* ------------------------------------------------------------------------
\* Harness: _adjustForInflation on base values, years and rate series
\* ------------------------------------------------------------------------
InflationBases ==
    {DEFAULT_VALUES.householdIncome.base, DEFAULT_VALUES.costOfLiving.utilities.base,
     DEFAULT_VALUES.costOfLiving.food.base, DEFAULT_VALUES.costOfLiving.transport.base,
     Zero, Dec(465, 1), Dec(4649, 2), Dec(-25, 1), Num(-300)}
InflationYears == 2018 .. 2026
\* the rates of the source, a series with years missing, and one with no year
InflationSeries ==
    {INFLATION_RATES,
     (2019 :> Num(-2)) @@ (2021 :> Dec(29, 1)) @@ (2023 :> Zero) @@
     (2024 :> Num(10)) @@ (2026 :> Num(50)),
     [year \in {} |-> Zero]}

InflationInit ==
    /\ AppInit
    /\ tax = TaxIdle
    /\ cls = ClsIdle
    /\ \E baseValue \in InflationBases : \E baseYear \in InflationYears :
       \E targetYear \in InflationYears : \E inflationRates \in InflationSeries :
          calc = [fn |-> "adjust", baseValue |-> baseValue, baseYear |-> baseYear,
                  targetYear |-> targetYear, inflationRates |-> inflationRates,
                  res |-> Undefined, pc |-> "start"]

ApplyAdjustForInflation ==
    /\ calc.fn = "adjust" /\ calc.pc = "start"
    /\ calc' = [calc EXCEPT
                   !.res = AdjustForInflation(calc.baseValue, calc.baseYear,
                                              calc.targetYear, calc.inflationRates),
                   !.pc = "done"]
    /\ UNCHANGED <<tax, cls, inputs, pricePoint, housingType, depositType, mortgageType,
                   housingData, fillColor, loaded, lastError, events, passes>>

InflationNext == ApplyAdjustForInflation

SpecInflation == InflationInit /\ [][InflationNext]_vars

\* ------------------------------------------------------------------------
\* Binary double precision, for the bracket scan of _convertNetToGross
\* ------------------------------------------------------------------------
\* A natural number of any size is a sequence of limbs of LimbBits bits, least
\* significant first, without a zero limb at the high end; << >> is 0.
LimbBits == 15
SignificandBits == 53

BigAdd(a, b) ==
    LET RECURSIVE From(_, _)
        From(i, carry) ==
            IF i > Len(a) /\ i > Len(b) THEN (IF carry = 0 THEN << >> ELSE <<carry>>)
            ELSE CHOOSE sum \in {<<s % 2^LimbBits>> \o From(i + 1, s \div 2^LimbBits) :
                                    s \in {(IF i <= Len(a) THEN a[i] ELSE 0)
                                           + (IF i <= Len(b) THEN b[i] ELSE 0) + carry}} : TRUE
    IN  From(1, 0)

\* a - b for a >= b
BigSub(a, b) ==
    LET RECURSIVE From(_, _)
        From(i, borrow) ==
            IF i > Len(a) THEN << >>
            ELSE CHOOSE diff \in {<<d % 2^LimbBits>> \o From(i + 1, IF d < 0 THEN 1 ELSE 0) :
                                     d \in {a[i] - (IF i <= Len(b) THEN b[i] ELSE 0) - borrow}} : TRUE
        RECURSIVE Trim(_)
        Trim(x) ==
            IF x = << >> THEN x
            ELSE IF x[Len(x)] = 0 THEN Trim(SubSeq(x, 1, Len(x) - 1))
            ELSE x
    IN  Trim(From(1, 0))

\* -1, 0 or 1
BigCmp(a, b) ==
    LET RECURSIVE At(_)
        At(i) ==
            IF i = 0 THEN 0
            ELSE IF a[i] > b[i] THEN 1
            ELSE IF a[i] < b[i] THEN -1
            ELSE At(i - 1)
    IN  IF Len(a) > Len(b) THEN 1
        ELSE IF Len(a) < Len(b) THEN -1
        ELSE At(Len(a))

\* a * k for 0 <= k <= 2^LimbBits
BigMulSmall(a, k) ==
    LET RECURSIVE From(_, _)
        From(i, carry) ==
            IF i > Len(a) THEN (IF carry = 0 THEN << >> ELSE <<carry>>)
            ELSE CHOOSE prod \in {<<s % 2^LimbBits>> \o From(i + 1, s \div 2^LimbBits) :
                                     s \in {a[i] * k + carry}} : TRUE
    IN  IF k = 0 THEN << >> ELSE From(1, 0)

\* a * 2^n
BigShl(a, n) ==
    CHOOSE shifted \in {IF x = << >> \/ n < LimbBits THEN x
                        ELSE [i \in 1..(n \div LimbBits) |-> 0] \o x :
                           x \in {BigMulSmall(a, 2^(n % LimbBits))}} : TRUE

BigMul(a, b) ==
    LET RECURSIVE From(_)
        From(i) ==
            IF i > Len(b) THEN << >>
            ELSE BigAdd(BigShl(BigMulSmall(a, b[i]), LimbBits * (i - 1)), From(i + 1))
    IN  From(1)

\* the number of bits of a
BigBits(a) ==
    LET RECURSIVE BitLength(_)
        BitLength(x) == IF x = 0 THEN 0 ELSE 1 + BitLength(x \div 2)
    IN  IF a = << >> THEN 0 ELSE LimbBits * (Len(a) - 1) + BitLength(a[Len(a)])

\* quotient and remainder of n by d > 0, limb by limb from the top of n
BigDivMod(n, d) ==
    LET \* the largest t + u with u < 2^(k+1) and d * (t + u) <= r
        RECURSIVE Digit(_, _, _)
        Digit(r, k, t) ==
            IF k < 0 THEN t
            ELSE IF BigCmp(BigMulSmall(d, t + 2^k), r) <= 0 THEN Digit(r, k - 1, t + 2^k)
            ELSE Digit(r, k - 1, t)
        \* a * 2^LimbBits + limb
        PushLimb(a, limb) == IF a = << >> /\ limb = 0 THEN << >> ELSE <<limb>> \o a
        Take(q, r, t) == [q |-> PushLimb(q, t), r |-> BigSub(r, BigMulSmall(d, t))]
        Step(q, r) ==
            CHOOSE qr \in {Take(q, r, t) : t \in {Digit(r, LimbBits - 1, 0)}} : TRUE
        \* upper: quotient and remainder of the limbs above the one brought down
        Limb(upper, limb) ==
            CHOOSE qr \in {Step(upper.q, r) : r \in {PushLimb(upper.r, limb)}} : TRUE
        RECURSIVE From(_)
        From(i) ==
            IF i > Len(n) THEN [q |-> << >>, r |-> << >>]
            ELSE CHOOSE qr \in {Limb(upper, n[i]) : upper \in {From(i + 1)}} : TRUE
    IN  From(1)

\* A finite double is (-1)^neg * m * 2^e with m < 2^53 (m = 2^53 after a carry
\* is the same value); the values of the scan are far from overflow and from
\* the subnormal range, so the exponent is not limited.
\* (-1)^neg * m * 2^e, or a little more when sticky, rounded to nearest, ties to even
RoundToDouble(neg, m, e, sticky) ==
    LET \* c compares the dropped part with half a unit
        Up(q, c) == c > 0 \/ (c = 0 /\ (sticky \/ (q # << >> /\ q[1] % 2 = 1)))
        Cut(qr, unit, k) ==
            [neg |-> neg,
             m |-> IF Up(qr.q, BigCmp(BigMulSmall(qr.r, 2), unit))
                   THEN BigAdd(qr.q, <<1>>) ELSE qr.q,
             e |-> e + k]
        At(unit, k) == CHOOSE r \in {Cut(qr, unit, k) : qr \in {BigDivMod(m, unit)}} : TRUE
        Drop(k) == CHOOSE r \in {At(unit, k) : unit \in {BigShl(<<1>>, k)}} : TRUE
    IN  IF BigBits(m) <= SignificandBits THEN [neg |-> neg, m |-> m, e |-> e]
        ELSE Drop(BigBits(m) - SignificandBits)

DblOfInt(n) ==
    LET RECURSIVE OfNat(_)
        OfNat(x) == IF x = 0 THEN << >> ELSE <<x % 2^LimbBits>> \o OfNat(x \div 2^LimbBits)
    IN  [neg |-> n < 0, m |-> OfNat(AbsI(n)), e |-> 0]

DblAdd(a, b) ==
    LET Mags(x, y, mx, my, e) ==
            IF x.neg = y.neg THEN RoundToDouble(x.neg, BigAdd(mx, my), e, FALSE)
            ELSE IF BigCmp(mx, my) >= 0 THEN RoundToDouble(x.neg, BigSub(mx, my), e, FALSE)
            ELSE RoundToDouble(y.neg, BigSub(my, mx), e, FALSE)
        \* the significands at the smaller exponent e
        At(x, y, e) ==
            CHOOSE r \in {Mags(x, y, mx, my, e) :
                             mx \in {BigShl(x.m, x.e - e)}, my \in {BigShl(y.m, y.e - e)}} : TRUE
    IN  CHOOSE r \in {At(x, y, IF x.e < y.e THEN x.e ELSE y.e) : x \in {a}, y \in {b}} : TRUE
DblSub(a, b) == DblAdd(a, [b EXCEPT !.neg = ~@])
DblMul(a, b) ==
    CHOOSE r \in {RoundToDouble(x.neg # y.neg, BigMul(x.m, y.m), x.e + y.e, FALSE) :
                     x \in {a}, y \in {b}} : TRUE
DblDiv(a, b) ==
    LET \* the numerator is shifted so that the quotient has two bits more than a significand
        Shift(x, y) ==
            IF SignificandBits + 2 + BigBits(y.m) > BigBits(x.m)
            THEN SignificandBits + 2 + BigBits(y.m) - BigBits(x.m) ELSE 0
        Of(neg, qr, e) == RoundToDouble(neg, qr.q, e, qr.r # << >>)
        At(x, y, s) ==
            CHOOSE r \in {Of(x.neg # y.neg, qr, x.e - s - y.e) :
                             qr \in {BigDivMod(BigShl(x.m, s), y.m)}} : TRUE
        Fin(x, y) ==
            IF x.m = << >> THEN [neg |-> x.neg # y.neg, m |-> << >>, e |-> 0]
            ELSE CHOOSE r \in {At(x, y, s) : s \in {Shift(x, y)}} : TRUE
    IN  CHOOSE r \in {Fin(x, y) : x \in {a}, y \in {b}} : TRUE

\* -1, 0 or 1: the sign of a - b, which rounding does not change
DblCmp(a, b) ==
    CHOOSE c \in {IF d.m = << >> THEN 0 ELSE IF d.neg THEN -1 ELSE 1 :
                     d \in {DblSub(a, b)}} : TRUE

\* the double a decimal literal of the source denotes
DblOfLiteral(x) ==
    IF x.e >= 0 THEN DblOfInt(x.m * P10(x.e))
    ELSE DblDiv(DblOfInt(x.m), DblOfInt(P10(-x.e)))

\* (netIncome + Cprev - r * lower) / denom in doubles
CandidateGrossDouble(netIncome, b) ==
    DblDiv(DblSub(DblAdd(netIncome, DblOfLiteral(b.Cprev)),
                  DblMul(DblOfLiteral(b.r), DblOfLiteral(b.lower))),
           DblSub(DblOfInt(1), DblOfLiteral(b.r)))

\* inRange in doubles; last holds for the final bracket
BracketInRangeDouble(b, candidateGross, last) ==
    /\ DblCmp(candidateGross, DblOfLiteral(b.lower)) >= 0
    /\ (IF last THEN DblCmp(candidateGross, DblOfLiteral(b.lower)) >= 0
                ELSE DblCmp(candidateGross, DblOfLiteral(b.upper)) < 0)

\* ------------------------------------------------------------------------
\* Harness: _convertNetToGross in doubles, one loop iteration at a time
\* ------------------------------------------------------------------------
\* net incomes in quarters of a dollar: around every bracket boundary and its
\* net image, and a grid
ScanQuarters ==
    {4 * b + d : b \in {p \in TaxPoints : p >= 18200}, d \in {-4, -1, 0, 1, 4}}
    \cup {4 * (10000 * i + 4321) : i \in 0..MaxGrid}
    \cup {-4}

ScanInit ==
    /\ AppInit
    /\ tax = TaxIdle
    /\ cls = ClsIdle
    /\ \E q \in ScanQuarters :
          calc = [fn |-> "scan", quarters |-> q, netIncome |-> [DblOfInt(q) EXCEPT !.e = -2], i |-> 1,
                  accepted |-> 0, fellThrough |-> FALSE, res |-> DblOfInt(0), pc |-> "enter"]

\* the statements before the loop; brackets are numbered from 1 here, from 0 in the code
ScanEnter ==
    /\ calc.fn = "scan" /\ calc.pc = "enter"
    /\ calc' = IF DblCmp(calc.netIncome, DblOfInt(0)) < 0
               THEN [calc EXCEPT !.res = DblOfInt(0), !.pc = "done"]
               ELSE IF DblCmp(calc.netIncome, DblOfLiteral(NetToGrossBrackets[1].upper)) <= 0
               THEN [calc EXCEPT !.res = calc.netIncome, !.accepted = 1, !.pc = "done"]
               ELSE [calc EXCEPT !.i = 2, !.pc = "loop"]
    /\ UNCHANGED <<tax, cls, inputs, pricePoint, housingType, depositType, mortgageType,
                   housingData, fillColor, loaded, lastError, events, passes>>

\* one iteration of the loop over the brackets
ScanIteration ==
    /\ calc.fn = "scan" /\ calc.pc = "loop" /\ calc.i <= Len(NetToGrossBrackets)
    /\ \E candidateGross \in {CandidateGrossDouble(calc.netIncome, NetToGrossBrackets[calc.i])} :
          calc' = IF DblCmp(DblSub(DblOfInt(1), DblOfLiteral(NetToGrossBrackets[calc.i].r)),
                            DblOfInt(0)) <= 0
                  THEN [calc EXCEPT !.i = calc.i + 1]
                  ELSE IF BracketInRangeDouble(NetToGrossBrackets[calc.i], candidateGross,
                                               calc.i = Len(NetToGrossBrackets))
                  THEN [calc EXCEPT !.res = candidateGross, !.accepted = calc.i, !.pc = "done"]
                  ELSE [calc EXCEPT !.i = calc.i + 1]
    /\ UNCHANGED <<tax, cls, inputs, pricePoint, housingType, depositType, mortgageType,
                   housingData, fillColor, loaded, lastError, events, passes>>

\* the statements after the loop
ScanFallthrough ==
    /\ calc.fn = "scan" /\ calc.pc = "loop" /\ calc.i > Len(NetToGrossBrackets)
    /\ calc' = [calc EXCEPT
                   !.res = CandidateGrossDouble(calc.netIncome,
                                                NetToGrossBrackets[Len(NetToGrossBrackets)]),
                   !.fellThrough = TRUE, !.pc = "done"]
    /\ UNCHANGED <<tax, cls, inputs, pricePoint, housingType, depositType, mortgageType,
                   housingData, fillColor, loaded, lastError, events, passes>>

ScanNext == ScanEnter \/ ScanIteration \/ ScanFallthrough

SpecScan == ScanInit /\ [][ScanNext]_vars

\* ------------------------------------------------------------------------
\* Properties of the tax conversion
\* ------------------------------------------------------------------------
\* |a - b| <= 1e-6 * |b|
WithinTolerance(a, b) == Le(AbsN(Sub(a, b)), Mul(Dec(1, 6), AbsN(b)))

\* C1: for every gross >= 0, _convertNetToGross(_calculateNetIncome(gross))
\* equals gross within a relative tolerance of 1e-6, bracket boundaries included.
C1_GrossRoundTrip ==
    (tax.dir = "g2n2g" /\ tax.pc = "done" /\ Ge(tax.arg, Zero))
        => WithinTolerance(tax.res, tax.arg)

\* a gross round trip has completed from the boundary of the top bracket
C1_Witness ==
    /\ tax.dir = "g2n2g" /\ tax.pc = "done"
    /\ tax.arg = Num(190000) /\ tax.mid = Num(138362)

\* C2: for every net x >= 0, _calculateNetIncome(_convertNetToGross(x)) equals x
\* within tolerance, the nets that are images of a bracket boundary included.
C2_NetRoundTrip ==
    (tax.dir = "n2g2n" /\ tax.pc = "done" /\ Ge(tax.arg, Zero))
        => WithinTolerance(tax.res, tax.arg)

\* a net round trip has completed from the image of the 45000 boundary
C2_Witness ==
    /\ tax.dir = "n2g2n" /\ tax.pc = "done"
    /\ tax.arg = Num(40712) /\ tax.mid = Num(45000)

BracketIndexes == 1..Len(NetToGrossBrackets)

\* C3: the two bracket tables agree on lower, upper and rate, are sorted and
\* contiguous with non-decreasing rates, and each Cprev is the tax
\* _calculateNetIncome charges at that bracket's lower bound.
C3_TablesConsistent ==
    /\ Len(NetToGrossBrackets) = 5 /\ Len(GrossToNetBrackets) = 5
    /\ \A i \in BracketIndexes :
          /\ NetToGrossBrackets[i].lower = GrossToNetBrackets[i].lower
          /\ NetToGrossBrackets[i].upper = GrossToNetBrackets[i].upper
          /\ NetToGrossBrackets[i].r = GrossToNetBrackets[i].r
          /\ NetToGrossBrackets[i].Cprev =
                Sub(GrossToNetBrackets[i].lower,
                    CalculateNetIncome(GrossToNetBrackets[i].lower))
    /\ \A i \in BracketIndexes \ {5} :
          /\ Lt(NetToGrossBrackets[i].lower, NetToGrossBrackets[i + 1].lower)
          /\ NetToGrossBrackets[i].upper = NetToGrossBrackets[i + 1].lower
          /\ Le(NetToGrossBrackets[i].r, NetToGrossBrackets[i + 1].r)
    /\ \A i \in BracketIndexes :
          (tax.dir = "g2n2g" /\ tax.pc # "start" /\ tax.arg = GrossToNetBrackets[i].lower)
              => Sub(tax.arg, tax.mid) = NetToGrossBrackets[i].Cprev

\* _calculateNetIncome has been applied at the 135000 boundary
C3_Witness ==
    /\ tax.dir = "g2n2g" /\ tax.pc = "mid"
    /\ tax.arg = Num(135000) /\ tax.mid = Num(103712)

\* ------------------------------------------------------------------------
\* Properties of the colour classification
\* ------------------------------------------------------------------------
Critical == "#000000"
NoData == "#ccc"
VeryAffordable == "#16a34a"
Affordable == "#22c55e"
Moderate == "#fbbf24"
High == "#f97316"
Severe == "#ef4444"
Buckets == {Critical, NoData, VeryAffordable, Affordable, Moderate, High, Severe}

NegativeLeftover(leftover) == leftover.k \in {"fin", "inf"} /\ Lt(leftover, Zero)
NoPercentage(pct) == pct.k = "null" \/ IsNaN(pct) \/ (IsFin(pct) /\ pct.m = 0)

\* the bucket the priority rules of the claim give
BucketRule(pct, leftover, bucket) ==
    /\ NegativeLeftover(leftover) => bucket = Critical
    /\ (~NegativeLeftover(leftover) /\ NoPercentage(pct)) => bucket = NoData
    /\ (~NegativeLeftover(leftover) /\ ~NoPercentage(pct)) =>
          /\ Le(pct, Num(20)) => bucket = VeryAffordable
          /\ (Gt(pct, Num(20)) /\ Le(pct, Num(30))) => bucket = Affordable
          /\ (Gt(pct, Num(30)) /\ Le(pct, Num(40))) => bucket = Moderate
          /\ (Gt(pct, Num(40)) /\ Le(pct, Num(50))) => bucket = High
          /\ Gt(pct, Num(50)) => bucket = Severe

\* C9: _getColor applies its rules in strict priority order (negative leftover,
\* then no percentage, then the percentage thresholds) and returns one bucket.
C9_ClassifyPriority ==
    cls.pc = "done" =>
        /\ cls.color \in Buckets
        /\ BucketRule(cls.percentage, cls.leftover, cls.color)

\* an affordable percentage with a negative leftover has been classified
C9_Witness ==
    /\ cls.pc = "done"
    /\ cls.percentage = Num(25) /\ cls.leftover = Num(-10)
    /\ cls.color = Critical

\* ------------------------------------------------------------------------
\* Properties of the recompute pass
\* ------------------------------------------------------------------------
\* the data is loaded and the last handler ran its pass to the end
PassDone == loaded /\ lastError = "none"

\* a numeric setting as entered, 0 when the control holds no number
Setting(id) == OrElse(ParseFloat(inputs[id]), Zero)

EnteredWeeklyGross == Div(ConvertNetToGross(Setting("annualIncome")), Num(52))
EnteredWeeklyNet == Div(Setting("annualIncome"), Num(52))
EnteredLivingCosts ==
    Add(Add(Add(Setting("utilities"), Setting("food")), Setting("transport")), Setting("other"))
EnteredOwnerCosts ==
    Add(Add(Add(Setting("strata"), Setting("council")), Setting("water")), Setting("maintenance"))

ActiveRent(d) ==
    CASE pricePoint = "q1" -> d.yearly_first_quartile_weekly_rent
      [] pricePoint = "q3" -> d.yearly_third_quartile_weekly_rent
      [] pricePoint = "median" -> d.yearly_median_weekly_rent
ActiveSales000s(d) ==
    CASE pricePoint = "q1" -> d.yearly_first_quartile_sales_000s
      [] pricePoint = "q3" -> d.yearly_third_quartile_sales_000s
      [] pricePoint = "median" -> d.yearly_median_sales_price_000s
ActiveSalesPrice(d) ==
    IF IsFin(ActiveSales000s(d)) THEN Mul(ActiveSales000s(d), Num(1000)) ELSE Zero

\* C4: in rent mode a record with a positive rent at the active price point
\* gets weekly_housing_cost = rent and affordability_percentage =
\* rent / (netToGross(annual net) / 52) * 100.
C4_RentCost ==
    (PassDone /\ housingType = "rent") =>
        \A p \in DOMAIN housingData :
            LET d == housingData[p]
            IN  Gt(ActiveRent(d), Zero) =>
                    /\ d.weekly_housing_cost = ActiveRent(d)
                    /\ d.affordability_percentage =
                          Mul(Div(ActiveRent(d), EnteredWeeklyGross), Num(100))

\* a pass in rent mode at the q3 price point has priced a record with a rent
C4_Witness ==
    /\ PassDone /\ housingType = "rent" /\ pricePoint = "q3"
    /\ \E p \in DOMAIN housingData :
          /\ Gt(ActiveRent(housingData[p]), Zero)
          /\ Gt(housingData[p].affordability_percentage, Zero)
          /\ IsFin(housingData[p].affordability_percentage)

\* C5 as stated: in buy mode, for every value of the settings, the housing cost
\* of a record with a positive sales price is the mortgage payment for the
\* entered deposit, rate and term, weekly, plus the weekly owner costs.
C5_BuyCostForEverySetting ==
    (PassDone /\ housingType = "buy") =>
        \A p \in DOMAIN housingData :
            LET d == housingData[p]
                price == ActiveSalesPrice(d)
                deposit == IF depositType = "percent"
                           THEN Mul(price, Div(Setting("depositPercent"), Num(100)))
                           ELSE Setting("depositAmount")
                loanAmount == MathMax(Zero, Sub(price, deposit))
                monthly == CalculateMortgage(loanAmount, Setting("interestRate"),
                                             Setting("loanTerm"), mortgageType)
            IN  Gt(price, Zero) =>
                    d.weekly_housing_cost =
                        Add(Div(Mul(monthly.payment, Num(12)), Num(52)), EnteredOwnerCosts)

\* C6: after a pass, a record to which neither branch applies has cost 0 and
\* percentage 0, and weekly_money_leftover is null exactly when the cost is not
\* > 0, otherwise weekly net income - living costs - cost.
C6_CostAndLeftover ==
    PassDone =>
        \A p \in DOMAIN housingData :
            LET d == housingData[p]
                rentApplies == housingType = "rent" /\ Gt(ActiveRent(d), Zero)
                buyApplies == housingType = "buy" /\ Gt(ActiveSalesPrice(d), Zero)
            IN  /\ (~rentApplies /\ ~buyApplies) =>
                      (d.weekly_housing_cost = Zero /\ d.affordability_percentage = Zero)
                /\ (d.weekly_money_leftover = Null) <=> ~Gt(d.weekly_housing_cost, Zero)
                /\ Gt(d.weekly_housing_cost, Zero) =>
                      d.weekly_money_leftover =
                          Sub(Sub(EnteredWeeklyNet, EnteredLivingCosts), d.weekly_housing_cost)

\* a pass has left a record with a known cost and a negative leftover
C6_Witness ==
    /\ PassDone
    /\ \E p \in DOMAIN housingData :
          /\ Gt(housingData[p].weekly_housing_cost, Zero)
          /\ Lt(housingData[p].weekly_money_leftover, Zero)

\* C7: after a pass, is_affordable is true exactly when
\* affordability_percentage <= 30, for every record.
C7_AffordableFlag ==
    PassDone =>
        \A p \in DOMAIN housingData :
            /\ housingData[p].is_affordable \in {True, False}
            /\ (housingData[p].is_affordable = True)
                  <=> Le(housingData[p].affordability_percentage, Num(30))

\* a pass has flagged a record whose percentage is infinite as not affordable
C7_Witness ==
    /\ PassDone
    /\ \E p \in DOMAIN housingData :
          /\ housingData[p].affordability_percentage = Infinity
          /\ housingData[p].is_affordable = False

\* C8 as stated: with a weekly gross income <= 0 no record's percentage is NaN
\* or infinite and every record is coloured NoData.
C8_NoSignalWithoutIncome ==
    (PassDone /\ Le(EnteredWeeklyGross, Zero)) =>
        \A p \in DOMAIN housingData :
            /\ IsFin(housingData[p].affordability_percentage)
            /\ fillColor[p] = NoData

ComputedFields ==
    {"weekly_housing_cost", "affordability_percentage", "is_affordable",
     "weekly_money_leftover", "calculated_weekly_payment", "calculated_weekly_interest",
     "yearly_first_quartile_weekly_rent_payment", "yearly_third_quartile_weekly_rent_payment",
     "yearly_first_quartile_weekly_payment", "yearly_third_quartile_weekly_payment"}

\* the record as it was loaded: raw fields only
AsLoaded(d) == [f \in DOMAIN d |-> IF f \in ComputedFields THEN Undefined ELSE d[f]]

\* C10 as stated: after any history the records are those a single pass over
\* the loaded data with the current settings leaves (the history in which the
\* settings were entered before the load), so no earlier value survives.
C10_FunctionOfCurrentInputs ==
    PassDone =>
        \A p \in DOMAIN housingData :
            housingData[p] =
                UpdateRecord(AsLoaded(housingData[p]), GetUserSettings(inputs), inputs,
                             pricePoint, housingType, depositType, mortgageType)

\* ------------------------------------------------------------------------
\* Properties of the mortgage calculation
\* ------------------------------------------------------------------------
MortgageDone == calc.fn = "mortgage" /\ calc.pc = "done"
SameOrClose(a, b) == a = b \/ WithinTolerance(a, b)

\* C14: a principal <= 0 gives payment 0 and interest 0 whatever the rate, the
\* term and the type; a principal > 0 at rate 0 gives payment
\* principal / (termYears * 12) and interest 0 for IO and PI alike.
C14_DegenerateLoans ==
    MortgageDone =>
        /\ Le(calc.loanAmount, Zero) =>
              (calc.res.payment = Zero /\ calc.res.interest = Zero)
        /\ (Gt(calc.loanAmount, Zero) /\ calc.annualRate = Zero) =>
              /\ calc.res.payment = Div(calc.loanAmount, Mul(calc.termYears, Num(12)))
              /\ calc.res.interest = Zero

\* _calculateMortgage(100000, 0, 30, 'PI') has returned 100000 / 360
C14_Witness ==
    /\ MortgageDone
    /\ calc.loanAmount = Num(100000) /\ calc.annualRate = Zero
    /\ calc.termYears = Num(30) /\ calc.type = "PI"
    /\ calc.res.payment = Div(Num(100000), Num(360))

\* principal > 0, rate > 0 and term > 0
ProperLoan == Gt(calc.loanAmount, Zero) /\ Gt(calc.annualRate, Zero) /\ Gt(calc.termYears, Zero)
\* principal * rate / 100 / 12
ClaimedInterest == Div(Div(Mul(calc.loanAmount, calc.annualRate), Num(100)), Num(12))
\* (1 + m)^n with m = rate / 100 / 12 and n = termYears * 12
GrowthFactor ==
    MathPow(Add(Num(1), Div(Div(calc.annualRate, Num(100)), Num(12))),
            Mul(calc.termYears, Num(12)))
ClaimedAnnuity == Div(Mul(calc.res.interest, GrowthFactor), Sub(GrowthFactor, Num(1)))
\* the largest growth factor for which the strict inequality is asserted
FactorLimit == Strip(1, 6)

\* what C15 says of the amounts, the comparison of the two payments aside
LoanAmounts ==
    /\ SameOrClose(calc.res.interest, ClaimedInterest)
    /\ calc.type = "IO" => calc.res.payment = calc.res.interest
    /\ calc.type = "PI" => SameOrClose(calc.res.payment, ClaimedAnnuity)

C11_ConversionFailureContained ==
    ~NumberIsFinite(Setting("annualIncome")) =>
        /\ lastError = "none"
        /\ loaded => \A p \in DOMAIN housingData :
                        p \in DOMAIN fillColor /\ fillColor[p] = NoData

\* the computed field f of record p as the previous pass left it
PreviousField(p, f) == IF p \in DOMAIN housingData THEN housingData[p][f] ELSE Undefined
\* the computed fields every completed iteration assigns
AlwaysWritten == ComputedFields \ {"calculated_weekly_payment", "calculated_weekly_interest"}
\* the record d after one pass over its raw fields with the settings s
FreshRecord(d, inp, pp, hType, depType, mortType) ==
    UpdateRecord(AsLoaded(d), GetUserSettings(inp), inp, pp, hType, depType, mortType)

\* C12: a handler whose pass throws leaves every computed field of every record
\* as it was; a handler whose pass completes has processed every record (each
\* always-written field is the one a pass with the settings in force gives).
C12_AllOrNothing ==
    [][ /\ lastError' = "TypeError" =>
              \A p \in DOMAIN housingData' : \A f \in ComputedFields :
                  housingData'[p][f] = PreviousField(p, f)
        /\ lastError' = "none" =>
              \A p \in DOMAIN housingData' :
                  \E fresh \in {FreshRecord(housingData'[p], inputs', pricePoint',
                                            housingType', depositType', mortgageType')} :
                      \A f \in AlwaysWritten : housingData'[p][f] = fresh[f] ]_vars

\* the price point was changed while the income was not finite: the pass threw
\* and the record still carries the cost of the median rent
C12_Witness ==
    /\ loaded /\ lastError = "TypeError" /\ events = 2
    /\ housingType = "rent" /\ pricePoint = "q3"
    /\ \E p \in DOMAIN housingData :
          /\ housingData[p].yearly_third_quartile_weekly_rent = Num(550)
          /\ housingData[p].weekly_housing_cost = Num(450)

\* a quartile sales price in dollars, 0 when the cell is empty
QuartilePrice(sales000s) == IF IsFin(sales000s) THEN Mul(sales000s, Num(1000)) ELSE Zero
\* the weekly_housing_cost of buy mode at price point pp under the settings in force
BuyCostAt(d, pp) ==
    HousingCost(d, GetUserSettings(inputs), inputs, pp, "buy",
                depositType, mortgageType).weeklyHousingCost
ProjectionRule(d, sales000s, projection, pp) ==
    /\ ~Gt(QuartilePrice(sales000s), Zero) => projection = Null
    /\ Gt(QuartilePrice(sales000s), Zero) =>
          /\ projection = BuyCostAt(d, pp)
          /\ (housingType = "buy" /\ pricePoint = pp) => projection = d.weekly_housing_cost

RawFields ==
    {"yearly_median_weekly_rent", "yearly_first_quartile_weekly_rent",
     "yearly_third_quartile_weekly_rent", "yearly_median_sales_price_000s",
     "yearly_first_quartile_sales_000s", "yearly_third_quartile_sales_000s"}
Raw(d) == [f \in RawFields |-> d[f]]

\* C19: the raw fields of the records are those of rows of the file when the
\* load returns, and no later handler changes them or the set of records.
C19_RawFieldsKept ==
    [][ /\ loaded' => \A p \in DOMAIN housingData' :
                         \E r \in RawRecords : Raw(housingData'[p]) = Raw(r)
        /\ loaded => /\ DOMAIN housingData' = DOMAIN housingData
                     /\ \A p \in DOMAIN housingData :
                           Raw(housingData'[p]) = Raw(housingData[p]) ]_vars

\* two passes after the load, the second in buy mode, have left the raw
\* fields of a full record in place beside its computed fields
C19_Witness ==
    /\ PassDone /\ events = 2 /\ housingType = "buy"
    /\ \E p \in DOMAIN housingData :
          /\ Raw(housingData[p]) =
                Raw(MkRecord(Num(450), Num(400), Num(550), Num(800), Num(600), Num(1000)))
          /\ IsFin(housingData[p].calculated_weekly_payment)

\* C20 as stated: the handler of every settings change runs a pass to the end,
\* and when it returns every loaded record is the one a pass with the settings
\* now in force leaves.
C20_ChangeRecomputesAll ==
    [][ (loaded /\ events' # events) =>
            /\ lastError' = "none"
            /\ \A p \in DOMAIN housingData' :
                  housingData'[p] =
                      FreshRecord(housingData'[p], inputs', pricePoint', housingType',
                                  depositType', mortgageType') ]_vars

\* ------------------------------------------------------------------------
\* Properties of the converters outside the taxed range
\* ------------------------------------------------------------------------
TaxFreeThreshold == GrossToNetBrackets[1].upper

\* what the claim gives for an argument outside the taxed range
TrivialImage(arg, image) ==
    /\ (Ge(arg, Zero) /\ Le(arg, TaxFreeThreshold)) => image = arg
    /\ Lt(arg, Zero) => image = Zero

\* C17: netToGross(net) = net and grossToNet(gross) = gross for every argument in
\* 0..18200, and every negative finite argument of either function yields 0.
C17_TrivialOutsideTaxedRange ==
    /\ tax.pc \in {"mid", "done"} => TrivialImage(tax.arg, tax.mid)
    /\ tax.pc = "done" => TrivialImage(tax.mid, tax.res)

\* both converters have been applied at the top of the 0% bracket
C17_Witness ==
    /\ tax.pc = "done" /\ tax.dir = "g2n2g"
    /\ tax.arg = TaxFreeThreshold /\ tax.mid = TaxFreeThreshold /\ tax.res = TaxFreeThreshold

\* ------------------------------------------------------------------------
\* Monotonicity of the converters
\* ------------------------------------------------------------------------
OrderDone == calc.fn \in {"grossToNet", "netToGross"} /\ calc.pc = "done"

\* C16: grossToNet and netToGross are non-decreasing over the finite arguments,
\* negative, zero and positive, across every bracket boundary and the clamp at 0.
C16_NonDecreasing ==
    OrderDone => Le(calc.atLower, calc.atUpper)

\* netToGross applied just below and just above the net image of a bracket boundary
C16_Witness ==
    /\ OrderDone /\ calc.fn = "netToGross"
    /\ calc.lower = Dec(10371199, 2) /\ calc.upper = Dec(10371201, 2)
    /\ Lt(calc.atLower, Num(135000)) /\ Gt(calc.atUpper, Num(135000))

\* ------------------------------------------------------------------------
\* Inflation adjustment
\* ------------------------------------------------------------------------
AdjustDone == calc.fn = "adjust" /\ calc.pc = "done"

\* the years whose rate the claim applies: after baseYear, up to targetYear, in series
RatedYears(baseYear, targetYear, series) ==
    {y \in DOMAIN series : baseYear < y /\ y <= targetYear}

LastYear(years) == CHOOSE y \in years : \A z \in years : z <= y

\* base times (1 + rate/100), once for each of the years, in calendar order
RECURSIVE Compounded(_, _, _)
Compounded(base, years, series) ==
    IF years = {} THEN base
    ELSE Mul(Compounded(base, years \ {LastYear(years)}, series),
             Add(Num(1), Div(series[LastYear(years)], Num(100))))

ClaimedAdjusted ==
    MathRound(Compounded(calc.baseValue,
                         RatedYears(calc.baseYear, calc.targetYear, calc.inflationRates),
                         calc.inflationRates))

\* C18 as stated: the result is base compounded over the rated years after
\* baseYear up to targetYear and rounded to the nearest integer, and base itself,
\* unchanged, when targetYear <= baseYear.
C18_AdjustAsStated ==
    AdjustDone =>
        calc.res = (IF calc.targetYear <= calc.baseYear THEN calc.baseValue
                    ELSE ClaimedAdjusted)

\* C18, amended: the result is base compounded over the rated years after
\* baseYear up to targetYear and rounded to the nearest integer; when
\* targetYear <= baseYear no rate is applied and the result is base rounded to
\* the nearest integer.
C18_AdjustRounded ==
    AdjustDone =>
        /\ calc.res = ClaimedAdjusted
        /\ calc.targetYear <= calc.baseYear => calc.res = MathRound(calc.baseValue)

\* the default household income carried from 2022 to 2025 over the built-in series
C18_Witness ==
    /\ AdjustDone
    /\ calc.baseValue = Num(61984) /\ calc.baseYear = 2022 /\ calc.targetYear = 2025
    /\ calc.inflationRates = INFLATION_RATES
    /\ calc.res = Num(68941)

\* ------------------------------------------------------------------------
\* Coercion of the settings
\* ------------------------------------------------------------------------
\* a setting as the claim has it used: the entered number when it is finite, else 0
Coerced(id) ==
    IF IsFin(ParseFloat(inputs[id])) THEN ParseFloat(inputs[id]) ELSE Zero

CoercedMortgage ==
    [depositPercent |-> Coerced("depositPercent"),
     depositAmount  |-> Coerced("depositAmount"),
     interestRate   |-> Coerced("interestRate"),
     loanTermYears  |-> Coerced("loanTerm")]
CoercedLivingCosts ==
    Add(Add(Add(Coerced("utilities"), Coerced("food")), Coerced("transport")), Coerced("other"))
CoercedOwnerCosts ==
    Add(Add(Add(Coerced("strata"), Coerced("council")), Coerced("water")), Coerced("maintenance"))

\* the buy-mode cost and the leftover of a record for the coerced settings
CoercedCost(d) ==
    Add(Weekly(MortgageFor(ActiveSalesPrice(d), CoercedMortgage,
                           depositType, mortgageType).payment),
        CoercedOwnerCosts)
CoercedLeftover(d) ==
    Sub(Sub(Div(Coerced("annualIncome"), Num(52)), CoercedLivingCosts),
        d.weekly_housing_cost)

\* C21 as stated: every setting that is missing or not a finite number is used
\* as 0 by a recompute: the pass runs to the end, the buy-mode cost is the one
\* for the coerced deposit, rate, term and owner costs, and the leftover the one
\* for the coerced income and living costs.
C21_SettingsCoercedToZero ==
    loaded =>
        /\ lastError = "none"
        /\ \A p \in DOMAIN housingData :
              /\ (housingType = "buy" /\ Gt(ActiveSalesPrice(housingData[p]), Zero)) =>
                    housingData[p].weekly_housing_cost = CoercedCost(housingData[p])
              /\ Gt(housingData[p].weekly_housing_cost, Zero) =>
                    housingData[p].weekly_money_leftover = CoercedLeftover(housingData[p])

\* ------------------------------------------------------------------------
\* Reading of the entered income
\* ------------------------------------------------------------------------
\* the weekly incomes when the entered annual income is the gross income
WeeklyGrossAsEntered == Div(Setting("annualIncome"), Num(52))
WeeklyNetOfEntered == Div(CalculateNetIncome(Setting("annualIncome")), Num(52))

\* C22 as stated: the entered annual income is the gross income: the percentage
\* of a rented record is rent over the entered income per week, and the leftover
\* starts from the net income the tax brackets leave of the entered income.
C22_EnteredIncomeIsGross ==
    PassDone =>
        \A p \in DOMAIN housingData :
            /\ (housingType = "rent" /\ Gt(ActiveRent(housingData[p]), Zero)) =>
                  housingData[p].affordability_percentage =
                      Mul(Div(ActiveRent(housingData[p]), WeeklyGrossAsEntered), Num(100))
            /\ Gt(housingData[p].weekly_housing_cost, Zero) =>
                  housingData[p].weekly_money_leftover =
                      Sub(Sub(WeeklyNetOfEntered, EnteredLivingCosts),
                          housingData[p].weekly_housing_cost)

\* ------------------------------------------------------------------------
\* Order of the load and the passes
\* ------------------------------------------------------------------------
\* C23 as stated: no recompute pass runs between the construction of the
\* application and the completion of the data load, whether from the
\* construction itself or from a settings change arriving while the load is
\* pending.
C23_NoPassBeforeLoad ==
    ~loaded => passes = 0

\* ------------------------------------------------------------------------
\* The bracket scan
\* ------------------------------------------------------------------------
ScanDone == calc.fn = "scan" /\ calc.pc = "done"

\* the net income, in quarters, that the gross income g leaves
NetQuartersOf(g) == 4 * ToInt(CalculateNetIncome(g))

\* the bracket that contains the gross income whose net income is q quarters
TrueBracket(q) ==
    CHOOSE j \in 2..Len(GrossToNetBrackets) :
        /\ NetQuartersOf(GrossToNetBrackets[j].lower) <= q
        /\ (j = Len(GrossToNetBrackets) \/ q < NetQuartersOf(GrossToNetBrackets[j].upper))

\* C24 as stated: for a net income above 18200 the scan accepts the candidate of
\* the bracket that contains the true gross income, and the statements after
\* the loop are never reached.
C24_ScanAcceptsTrueBracket ==
    (ScanDone /\ calc.quarters > NetQuartersOf(GrossToNetBrackets[1].upper)) =>
        /\ ~calc.fellThrough
        /\ calc.accepted = TrueBracket(calc.quarters)

====
